---- MODULE Spec2Model ----
(***************************************************************************)
(* A model of ruplicity's read side: the BlockCache of src/read/cache.rs   *)
(* (a RwLock around a LinkedHashMap used as an LRU) and the Entry reader   *)
(* of src/read/mod.rs that pulls blocks from the cache or a BlockStream.   *)
(***************************************************************************)
EXTENDS Integers, Sequences, FiniteSets, TLC

\* ------------------------------------------------------------------ bounds

\* cache.rs:23 sets BLOCK_SIZE to 64 * 1024.  Byte sequences of that length
\* cannot be enumerated, so the model scales the block size down; every
\* definition below is written against the name, never against the number.
BLOCK_SIZE == 2

\* BlockCache::new(max_blocks) is tried for every max_blocks in 0..MaxBlocks.
MaxBlocks == 2

\* Block indexes 0..MaxBlockIndex of the one EntryId the model follows.
MaxBlockIndex == 2

\* The most volumes a manifest of the model has.
MaxVolumes == 3

\* The most volume records a manifest text of the model has.
MaxRecords == 2

\* The most bytes a word has before it is escaped.
MaxWordLen == 2

\* The most suffixes a file name of the model has after its body.
MaxSuffixes == 2

\* The most backup sets a backup chain of the model has.
MaxSets == 2

\* BlockProvider::new(.., cache_size) is tried for every cache_size in
\* 0..MaxCacheSize.
MaxCacheSize == 40

\* ------------------------------------------------------------- data types

Min(a, b) == IF a < b THEN a ELSE b

\* signatures::EntryId; the model follows one entry.
TheEntry == <<0, 0>>

\* pub type BlockId = (EntryId, usize)
BlockId == { <<TheEntry, k>> : k \in 0..MaxBlockIndex }

\* The byte sequence s, s+1, ..., s+n-1: every position is told apart.
Ramp(s, n) == [i \in 1..n |-> s + i - 1]

\* The buffers callers hand to write: lengths 0..BLOCK_SIZE+1 (one more than
\* a block can hold), told apart by their lengths.
WriteBuffers == { Ramp(1, n) : n \in 0..(BLOCK_SIZE + 1) }

\* The buffers callers hand to read: vec![0; n].
Zeros(n) == [i \in 1..n |-> 0]

ReadBuffers == { Zeros(n) : n \in 0..(BLOCK_SIZE + 1) }

\* Option<usize>: None is the empty sequence, Some(n) is <<n>>.
None == <<>>

Some(n) == <<n>>

\* ------------------------------------------------- LinkedHashMap<BlockId, Block>
\* The map is the sequence of its entries from the front (oldest) to the back.

Keys(idx) == { idx[i].id : i \in DOMAIN idx }

ContainsKey(idx, id) == \E i \in DOMAIN idx : idx[i].id = id

Position(idx, id) == CHOOSE i \in DOMAIN idx : idx[i].id = id

\* LinkedHashMap::get: the value, the order untouched.
Get(idx, id) == idx[Position(idx, id)].block

Without(idx, id) == SelectSeq(idx, LAMBDA e : e.id # id)

\* Mutant of GetRefresh: a plain lookup, the order untouched.
GetWithoutRefresh(idx, id) == idx

\* LinkedHashMap::get_refresh: a present key moves to the back.
GetRefresh(idx, id) ==
    IF ContainsKey(idx, id)
    THEN Append(Without(idx, id), idx[Position(idx, id)])
    ELSE idx

\* Mutant of PopFront: the back entry leaves the map.
PopBack(idx) == SubSeq(idx, 1, Len(idx) - 1)

\* LinkedHashMap::pop_front: the front entry leaves the map.
PopFront(idx) == Tail(idx)

\* LinkedHashMap::insert of a key the map does not hold: a new back entry.
Insert(idx, id, block) == Append(Without(idx, id), [id |-> id, block |-> block])

\* ------------------------------------------------------------------ Block

\* Block::new
BlockNew == <<>>

\* Mutant of WriteMaxBlock: the reused block is not cleared first.
WriteMaxBlockUncleared(block, buffer) ==
    block \o SubSeq(buffer, 1, Min(Len(buffer), BLOCK_SIZE))

\* Block::write_max_block: clear, then write buffer[0..min(len, BLOCK_SIZE)].
\* The result is the block's bytes; Vec::write returns their number.
WriteMaxBlock(block, buffer) == SubSeq(buffer, 1, Min(Len(buffer), BLOCK_SIZE))

\* <&[u8] as Read>::read(buffer): copies min(len) bytes to the buffer's start.
SliceRead(block, buffer) ==
    LET amt == Min(Len(block), Len(buffer))
    IN  [n |-> amt,
         buffer |-> [i \in 1..Len(buffer) |-> IF i <= amt THEN block[i] ELSE buffer[i]]]

\* ------------------------------------------------------------- BlockCache

\* The block write stores under id: the front entry's when the cache is full
\* (and not empty), a new one otherwise.
WriteStorage(idx, max) ==
    IF Len(idx) >= max /\ idx # <<>> THEN Head(idx).block ELSE BlockNew

\* The map after write has made room: the front entry popped when the cache
\* is full (and not empty).
WriteRoom(idx, max) ==
    IF Len(idx) >= max /\ idx # <<>> THEN PopFront(idx) ELSE idx

\* Mutant of WriteIndex: the lookup of a stored id promotes it.
WriteIndexPromoting(idx, max, id, buffer) ==
    IF ContainsKey(idx, id)
    THEN GetRefresh(idx, id)
    ELSE Insert(WriteRoom(idx, max), id, WriteMaxBlock(WriteStorage(idx, max), buffer))

\* BlockCache::write under the write lock: the index it leaves.
WriteIndex(idx, max, id, buffer) ==
    IF ContainsKey(idx, id)
    THEN idx
    ELSE Insert(WriteRoom(idx, max), id, WriteMaxBlock(WriteStorage(idx, max), buffer))

\* BlockCache::write: what it returns.
WriteResult(idx, max, id, buffer) ==
    IF ContainsKey(idx, id)
    THEN None
    ELSE Some(Len(WriteMaxBlock(WriteStorage(idx, max), buffer)))

\* Mutant of ReadCopyResult: the copy reads the storage the promotion left
\* at the back of the map, whatever key holds it now.
ReadCopyResultOfBack(idx, id, buffer) ==
    IF idx # <<>>
    THEN LET r == SliceRead(idx[Len(idx)].block, buffer)
         IN  [ret |-> Some(r.n), buffer |-> r.buffer]
    ELSE [ret |-> None, buffer |-> buffer]

\* Mutant of ReadCopyResult: a key that is gone reads as an empty block.
ReadCopyResultOfGone(idx, id, buffer) ==
    IF ContainsKey(idx, id)
    THEN LET r == SliceRead(Get(idx, id), buffer)
         IN  [ret |-> Some(r.n), buffer |-> r.buffer]
    ELSE [ret |-> Some(0), buffer |-> buffer]

\* BlockCache::read, second critical section (read lock): what it returns
\* and what it leaves in the caller's buffer.
ReadCopyResult(idx, id, buffer) ==
    IF ContainsKey(idx, id)
    THEN LET r == SliceRead(Get(idx, id), buffer)
         IN  [ret |-> Some(r.n), buffer |-> r.buffer]
    ELSE [ret |-> None, buffer |-> buffer]

\* ------------------------------------------------- BlockProvider and Entry

\* signatures::DiffType
DiffType == {"Snapshot", "Signature", "Deleted"}

\* BlockCache::read with its two critical sections one after the other: the
\* index it leaves, what it returns, the caller's buffer.
CacheRead(idx, id, buffer) ==
    IF ContainsKey(idx, id)
    THEN LET r == ReadCopyResult(GetRefresh(idx, id), id, buffer)
         IN  [index |-> GetRefresh(idx, id), ret |-> r.ret, buffer |-> r.buffer]
    ELSE [index |-> idx, ret |-> None, buffer |-> buffer]

\* BlockProvider::read_cached_block(id, buf, CacheType::Snapshot): the
\* cache it reads for an Entry is scache, the one the model holds in index.
ReadCachedBlock(idx, id, buffer) == CacheRead(idx, id, buffer)

\* BlockProvider::block_stream: the stream of an entry of the given type.
BlockStream(entry_type) ==
    IF entry_type \in {"Snapshot", "Signature"}
    THEN "panic: not yet implemented"
    ELSE "NullStream"

\* stream::NullStream: seek_to_block succeeds and read returns Ok(0), the
\* buffer untouched.
NullStreamRead(buffer) == [n |-> 0, buffer |-> buffer]

\* BlockProvider::read(entry): the Entry it returns.
EntryNew(entry_type) ==
    [entry_type |-> entry_type,
     buf |-> Zeros(BLOCK_SIZE),
     len |-> 0,
     pos |-> 0,
     id |-> 0,
     stream |-> "None"]

\* What seek_to_block and read of an open BlockStream come to: both return,
\* or one of them returns an I/O error.
StreamIo == {"ok", "error"}

\* Entry::fill_block as it would be if the length were taken from the buffer
\* when the stream's read fails (read(..).unwrap_or(buf.len())).
FillBlockLenOnError(e, idx, io) ==
    LET cached == ReadCachedBlock(idx, <<TheEntry, e.id>>, e.buf)
        opened == IF e.stream = "None" THEN BlockStream(e.entry_type) ELSE e.stream
    IN  IF cached.ret # None
        THEN [entry |-> [e EXCEPT !.buf = cached.buffer, !.len = cached.ret[1]],
              index |-> cached.index, outcome |-> "ok", from |-> "cache"]
        ELSE IF opened = "panic: not yet implemented"
        THEN [entry |-> e, index |-> cached.index, outcome |-> opened, from |-> "stream"]
        ELSE [entry |-> [e EXCEPT !.stream = opened,
                                  !.buf = NullStreamRead(e.buf).buffer,
                                  !.len = IF io = "error" THEN Len(e.buf)
                                          ELSE NullStreamRead(e.buf).n,
                                  !.pos = 0],
              index |-> cached.index, outcome |-> IF io = "error" THEN "error" ELSE "ok",
              from |-> "stream"]

\* Entry::fill_block on the entry e with the cache idx, io being what the
\* stream's calls come to if the stream is used: the entry and the cache it
\* leaves, how it ended, and where the block came from.
FillBlock(e, idx, io) ==
    LET cached == ReadCachedBlock(idx, <<TheEntry, e.id>>, e.buf)
        opened == IF e.stream = "None" THEN BlockStream(e.entry_type) ELSE e.stream
    IN  IF cached.ret # None
        THEN \* the block is in cache: len is set, pos is left as it is
             [entry |-> [e EXCEPT !.buf = cached.buffer, !.len = cached.ret[1]],
              index |-> cached.index, outcome |-> "ok", from |-> "cache"]
        ELSE IF opened = "panic: not yet implemented"
        THEN [entry |-> e, index |-> cached.index, outcome |-> opened, from |-> "stream"]
        ELSE IF io = "error"
        THEN \* try! returns the error: the stream stays, len and pos are left
             [entry |-> [e EXCEPT !.stream = opened], index |-> cached.index,
              outcome |-> "error", from |-> "stream"]
        ELSE [entry |-> [e EXCEPT !.stream = opened,
                                  !.buf = NullStreamRead(e.buf).buffer,
                                  !.len = NullStreamRead(e.buf).n,
                                  !.pos = 0],
              index |-> cached.index, outcome |-> "ok", from |-> "stream"]

\* Entry::read with buffered bytes (self.len > 0): the slice
\* self.buf[pos..pos + len] is taken, then copy_from_slice copies it to the
\* whole of out; either panics, the slice when it leaves the buffer, the
\* copy when out is not exactly as long as the slice.
ReadBuffered(e, out) ==
    LET len == Min(e.len, Len(out))
    IN  IF e.pos + len > Len(e.buf)
        THEN [entry |-> e, outcome |-> "panic: slice index out of range", n |-> 0, out |-> out]
        ELSE IF Len(out) # len
        THEN [entry |-> e, outcome |-> "panic: copy_from_slice length mismatch",
              n |-> 0, out |-> out]
        ELSE [entry |-> [e EXCEPT !.pos = e.pos + len, !.len = e.len - len],
              outcome |-> "ok", n |-> len,
              out |-> SubSeq(e.buf, e.pos + 1, e.pos + len)]

\* Entry::read: the entry and the cache it leaves, how it ended ("ok": it
\* returned Ok(n); "eof": it returned Ok(0) at the end of the stream; "error":
\* it returned the stream's I/O error), the caller's buffer, and the block it
\* fetched ("none", or where it came from).
EntryReadResult(e, idx, out, io) ==
    IF e.len > 0
    THEN LET r == ReadBuffered(e, out)
         IN  [entry |-> r.entry, index |-> idx, outcome |-> r.outcome, n |-> r.n,
              out |-> r.out, from |-> "none"]
    ELSE LET f == FillBlock(e, idx, io)
             next == [f.entry EXCEPT !.id = f.entry.id + 1]
         IN  IF f.outcome # "ok"
             THEN [entry |-> f.entry, index |-> f.index, outcome |-> f.outcome, n |-> 0,
                   out |-> out, from |-> "none"]
             ELSE IF next.len > 0
             THEN LET r == ReadBuffered(next, out)
                  IN  [entry |-> r.entry, index |-> f.index, outcome |-> r.outcome,
                       n |-> r.n, out |-> r.out, from |-> f.from]
             ELSE [entry |-> next, index |-> f.index, outcome |-> "eof", n |-> 0,
                   out |-> out, from |-> f.from]

\* Entry::fill_buf: with no buffered bytes it calls fill_block (the block
\* index is left as it is), then it takes the slice buf[pos..pos + len], which
\* panics when it leaves the buffer.  The entry and the cache it leaves, how
\* it ended ("ok": a slice with bytes; "eof": an empty slice), the slice, and
\* the block it fetched.
FillBuf(e, idx, io) ==
    LET f == IF e.len = 0 THEN FillBlock(e, idx, io)
             ELSE [entry |-> e, index |-> idx, outcome |-> "ok", from |-> "none"]
        filled == f.entry
    IN  IF f.outcome # "ok"
        THEN [entry |-> filled, index |-> f.index, outcome |-> f.outcome,
              slice |-> <<>>, from |-> "none"]
        ELSE IF filled.pos + filled.len > Len(filled.buf)
        THEN [entry |-> filled, index |-> f.index,
              outcome |-> "panic: slice index out of range", slice |-> <<>>,
              from |-> f.from]
        ELSE [entry |-> filled, index |-> f.index,
              outcome |-> IF filled.len > 0 THEN "ok" ELSE "eof",
              slice |-> SubSeq(filled.buf, filled.pos + 1, filled.pos + filled.len),
              from |-> f.from]

\* Entry::consume(amt)
Consume(e, amt) ==
    [e EXCEPT !.pos = e.pos + Min(amt, e.len), !.len = e.len - Min(amt, e.len)]

\* --------------------------------------------------------------- manifest
\* Paths are byte strings; slices compare in lexicographic byte order.
RECURSIVE Cmp(_, _)
Cmp(a, b) ==
    IF a = <<>> THEN (IF b = <<>> THEN "Equal" ELSE "Less")
    ELSE IF b = <<>> THEN "Greater"
    ELSE IF Head(a) < Head(b) THEN "Less"
    ELSE IF Head(a) > Head(b) THEN "Greater"
    ELSE Cmp(Tail(a), Tail(b))

Leq(a, b) == Cmp(a, b) \in {"Less", "Equal"}

\* The paths and block numbers of the manifests the model reads: a path, a
\* path it is a prefix of, and a path after both; no block number, 0 and 1.
Paths == {<<1>>, <<1, 1>>, <<2>>}

Blocks == {None, Some(0), Some(1)}

\* struct PathBlock, struct Volume (the hash is left out).
PathBlock(path, block) == [path |-> path, block |-> block]

Volume(start_path, end_path) == [start_path |-> start_path, end_path |-> end_path]

Volumes ==
    { Volume(PathBlock(sp, sb), PathBlock(ep, eb)) :
        sp \in Paths, sb \in Blocks, ep \in Paths, eb \in {None} }

\* The closure as it would be if a volume that starts at the path matched
\* whatever its start block.
VolumeOrderIgnoringBlock(path, v) ==
    LET c == Cmp(path, v.start_path.path)
    IN  IF c = "Less" THEN "Greater"
        ELSE IF c = "Greater"
        THEN (IF Cmp(path, v.end_path.path) \in {"Less", "Equal"} THEN "Equal" ELSE "Less")
        ELSE "Equal"

\* The closure as it would be if a volume that starts inside the file at the
\* path sent the search to the later volumes.
VolumeOrderTieToLater(path, v) ==
    LET c == Cmp(path, v.start_path.path)
    IN  IF c = "Less" THEN "Greater"
        ELSE IF c = "Greater"
        THEN (IF Cmp(path, v.end_path.path) \in {"Less", "Equal"} THEN "Equal" ELSE "Less")
        ELSE (IF v.start_path.block # None /\ v.start_path.block[1] > 0
              THEN "Less" ELSE "Equal")

\* The closure as it would be if the end path were outside the volume.
VolumeOrderEndExclusive(path, v) ==
    LET c == Cmp(path, v.start_path.path)
    IN  IF c = "Less" THEN "Greater"
        ELSE IF c = "Greater"
        THEN (IF Cmp(path, v.end_path.path) = "Less" THEN "Equal" ELSE "Less")
        ELSE (IF v.start_path.block # None /\ v.start_path.block[1] > 0
              THEN "Greater" ELSE "Equal")

\* The closure of first_volume_of_path: where the volume v lies relative to
\* the path looked for.
VolumeOrder(path, v) ==
    LET c == Cmp(path, v.start_path.path)
    IN  IF c = "Less" THEN "Greater"
        ELSE IF c = "Greater"
        THEN (IF Cmp(path, v.end_path.path) \in {"Less", "Equal"} THEN "Equal" ELSE "Less")
        ELSE (IF v.start_path.block # None /\ v.start_path.block[1] > 0
              THEN "Greater" ELSE "Equal")

\* slice::binary_search_by over volumes[lo..hi] (1-based, both ends in): the
\* results a binary search can return, each probe taken anywhere in the
\* range left (the library fixes no probe and, when several elements
\* compare Equal, no match).  Ok(idx) is Some(idx), Err(_) is None.
RECURSIVE BinarySearchBy(_, _, _, _)
BinarySearchBy(volumes, path, lo, hi) ==
    IF lo > hi THEN {None}
    ELSE UNION { LET o == VolumeOrder(path, volumes[i])
                 IN  IF o = "Equal" THEN {Some(i - 1)}
                     ELSE IF o = "Less" THEN BinarySearchBy(volumes, path, i + 1, hi)
                     ELSE BinarySearchBy(volumes, path, lo, i - 1)
                 : i \in lo..hi }

\* Manifest::first_volume_of_path: .map(|idx| idx + 1).ok()
FirstVolumeOfPath(volumes, path) ==
    { IF r = None THEN None ELSE Some(r[1] + 1) :
        r \in BinarySearchBy(volumes, path, 1, Len(volumes)) }

\* ----------------------------------------------------------- manifest parser
\* The text of a manifest is taken as its lines, a line as its words
\* (WordIter), a word as what it stands for: a keyword, a number, a path.
\* ParseError values are records; Ok values carry what they hold.
Err(kind) == [ok |-> FALSE, error |-> kind]

UnexpectedEof == Err("Io: file ends unexpectedly")

\* The bytes that end a line.
CR == "\\r"

LF == "\\n"

\* The input is the sequence of what read_until(b'\n') returns call by call:
\* the words of a line and the bytes that end it ("\n", "\r\n", or fewer at
\* the end of the input).

\* Mutant of StripEnd: only the line feed is taken off.
StripLineFeed(end) ==
    IF end # <<>> /\ end[Len(end)] = LF THEN SubSeq(end, 1, Len(end) - 1) ELSE end

\* read_line, lines 284-289: one trailing "\n" is taken off, then one
\* trailing "\r".
StripEnd(end) ==
    LET a == IF end # <<>> /\ end[Len(end)] = LF THEN SubSeq(end, 1, Len(end) - 1) ELSE end
    IN  IF a # <<>> /\ a[Len(a)] = CR THEN SubSeq(a, 1, Len(a) - 1) ELSE a

\* ManifestParser::read_line: the line read and the input left.  The line is
\* empty at the end of the input and for a line without words, and then
\* read_line returns false; end bytes that are left after the stripping stay
\* in the line.
ReadLine(rest) ==
    IF rest = <<>> THEN [line |-> <<>>, rest |-> <<>>]
    ELSE [line |-> Head(rest).words \o StripEnd(Head(rest).end), rest |-> Tail(rest)]

\* The keyword check of read_param_bytes, read_path_block, read_hash_param.
Keyword(line) == IF line = <<>> THEN "" ELSE line[1]

\* ManifestParser::read_path_block(key) on the line read.
ReadPathBlock(line, key) ==
    IF Keyword(line) # key THEN Err("MissingKeyword")
    ELSE IF Len(line) < 2 THEN Err("MissingPath")
    ELSE [ok |-> TRUE,
          value |-> PathBlock(line[2], IF Len(line) >= 3 THEN Some(line[3]) ELSE None)]

\* ManifestParser::read_hash_param on the line read (the hash is left out).
ReadHashParam(line) ==
    IF Keyword(line) # "Hash" THEN Err("MissingKeyword")
    ELSE IF Len(line) < 2 THEN Err("MissingHashType")
    ELSE IF Len(line) < 3 THEN Err("MissingHash")
    ELSE [ok |-> TRUE]

\* ManifestParser::read_volume: Ok(None) at the end of the input, Ok(Some((vol,
\* num))) after the four lines of a volume, or the error.
ReadVolume(rest) ==
    LET l1 == ReadLine(rest)
        l2 == ReadLine(l1.rest)
        l3 == ReadLine(l2.rest)
        l4 == ReadLine(l3.rest)
        start_path == ReadPathBlock(l2.line, "StartingPath")
        end_path == ReadPathBlock(l3.line, "EndingPath")
        hash == ReadHashParam(l4.line)
    IN  IF l1.line = <<>> THEN [ok |-> TRUE, some |-> FALSE, rest |-> l1.rest]
        ELSE IF Keyword(l1.line) # "Volume" THEN Err("MissingKeyword")
        ELSE IF Len(l1.line) < 2 THEN Err("ParseInt")
        ELSE IF l2.line = <<>> THEN UnexpectedEof
        ELSE IF ~start_path.ok THEN start_path
        ELSE IF l3.line = <<>> THEN UnexpectedEof
        ELSE IF ~end_path.ok THEN end_path
        ELSE IF l4.line = <<>> THEN UnexpectedEof
        ELSE IF ~hash.ok THEN hash
        ELSE [ok |-> TRUE, some |-> TRUE, rest |-> l4.rest,
              vol |-> Volume(start_path.value, end_path.value), num |-> l1.line[2]]

\* ManifestParser::parse up to the loop: the Hostname and Localdir lines.
ParseHeader(input) ==
    LET l1 == ReadLine(input)
        l2 == ReadLine(l1.rest)
    IN  IF l1.line = <<>> THEN UnexpectedEof
        ELSE IF Keyword(l1.line) # "Hostname" THEN Err("MissingKeyword")
        ELSE IF l2.line = <<>> THEN UnexpectedEof
        ELSE IF Keyword(l2.line) # "Localdir" THEN Err("MissingKeyword")
        ELSE [ok |-> TRUE, rest |-> l2.rest]

\* The out-of-order check as it would be if it compared with the number of
\* volumes rather than the next number.
OutOfOrderFromZero(i, volumes) == i # Len(volumes)

\* The out-of-order check of the loop of parse.
OutOfOrder(i, volumes) == i # Len(volumes) + 1

\* ---------------------------------------------------------------- unescape
\* Bytes are numbers in 0..255.  u8 arithmetic: - and + as the code writes
\* them on operands that stay in range for hex digits, << 4 dropping the
\* bits shifted out.
Shl4(b) == (b * 16) % 256

\* The \xNN arithmetic of unescape, line 422.
EscapedByte(h, l) == (Shl4((h - 48) % 256) + l - 48) % 256

\* The loop of unescape from index i (1-based) on.
RECURSIVE UnescapeFrom(_, _)
UnescapeFrom(buf, i) ==
    IF i > Len(buf) THEN <<>>
    ELSE IF buf[i] # 92 THEN <<buf[i]>> \o UnescapeFrom(buf, i + 1)
    ELSE IF Len(buf) - (i - 1) >= 4 /\ buf[i + 1] = 120
    THEN <<EscapedByte(buf[i + 2], buf[i + 3])>> \o UnescapeFrom(buf, i + 4)
    ELSE UnescapeFrom(buf, i + 1)

\* unescape: the quotes of a quoted word of more than one byte are dropped,
\* then the escapes are replaced.
Unescape(buf) ==
    IF buf = <<>> THEN <<>>
    ELSE IF buf[1] = 34 /\ Len(buf) > 1
    THEN UnescapeFrom(SubSeq(buf, 2, Len(buf) - 1), 1)
    ELSE UnescapeFrom(buf, 1)

\* ------------------------------------------------------------------ state
\* Any number of threads share the cache.  write, clear and a read that
\* misses run in one critical section each, so the calling thread does not
\* matter.  A read that hits runs in two; the model follows one such read
\* (the observed read) through both, and lets every other thread's read
\* promote in between (Promote): the copy of a read changes nothing shared.

VARIABLES
    max_blocks,   \* BlockCache.max_blocks
    index,        \* BlockCache.index, the LinkedHashMap from front to back
    pc,           \* the observed read: "idle", or "copy" between its two critical sections
    rid,          \* the observed read: its id
    last,         \* the step taken last: the call, what it returned, the caller's buffer after it
    track,        \* which history the run records: "data" or "lru"
    inserted,     \* history (data): per key, the buffer given to the write that inserted it
    race,         \* history (data): what writes did to rid since the observed read promoted it
    used,         \* history (lru): the stored keys in the order of their last use
    stale,        \* history (lru): per key, the keys that were stored when a read promoted it
                  \* last and that no call has used since
    size,         \* the number of bytes the backup holds for the entry
    entry,        \* the Entry: entry_type, buf, len, pos, id (the block index id.1), stream
    ended,        \* the Entry: "open", "eof" after read returned Ok(0) at the end of the
                  \* stream, or the panic that ended its last read
    delivered,    \* history: the bytes the reads of the Entry have returned, in order
    fetched,      \* history: the block indexes fill_block has fetched, in order
    failed,       \* history: a read of the Entry has returned an I/O error
    call,         \* a call of a function that touches neither cache nor Entry: its name
                  \* and its arguments
    ret           \* that call: "pending", or what it returned

cachevars == <<max_blocks, index, pc, rid, last, track, inserted, race, used, stale>>

entryvars == <<size, entry, ended, delivered, fetched, failed>>

callvars == <<call, ret>>

vars == <<cachevars, entryvars, callvars>>

NoId == <<TheEntry, 0>>

\* The record of a step: the call, its result, the caller's buffer after it,
\* and a note of history: for the copy of the observed read, what writes did
\* to its id since the promotion; for a write, whether it removed a key, and
\* whether that key was stale for a key that stays.
Returned(op, id, val, buffer, note) ==
    [op |-> op, id |-> id, val |-> val, buffer |-> buffer, note |-> note]

\* The keys a step from idx to idx2 removed.
Removed(idx, idx2) == Keys(idx) \ Keys(idx2)

\* The bytes of the entry as the backup holds them, and its block k: the
\* BLOCK_SIZE bytes from k * BLOCK_SIZE on, fewer or none at the end.
Content == Ramp(1, size)

BlockOf(k) == SubSeq(Content, k * BLOCK_SIZE + 1, Min((k + 1) * BLOCK_SIZE, size))

\* BlockProvider::read(entry) for an entry of some type and size; only a
\* snapshot or a signature entry has bytes.
EntryInit ==
    /\ size \in 0..(BLOCK_SIZE * MaxBlockIndex)
    /\ \E t \in DiffType : /\ entry = EntryNew(t)
                           /\ t \notin {"Snapshot", "Signature"} => size = 0
    /\ ended = "open"
    /\ delivered = <<>>
    /\ fetched = <<>>
    /\ failed = FALSE

\* No entry is read: BlockProvider::read is not called.
NoEntry ==
    /\ size = 0
    /\ entry = EntryNew("Deleted")
    /\ ended = "open"
    /\ delivered = <<>>
    /\ fetched = <<>>
    /\ failed = FALSE

\* BlockCache::new(max_blocks): an empty map.
CacheInit ==
    /\ max_blocks \in 0..MaxBlocks
    /\ index = <<>>
    /\ pc = "idle"
    /\ rid = NoId
    /\ last = Returned("new", NoId, None, <<>>, "no")
    /\ inserted = [k \in BlockId |-> <<>>]
    /\ race = "no"
    /\ used = <<>>
    /\ stale = [k \in BlockId |-> {}]

\* History (lru): the stored keys from the one used longest ago to the one
\* used last, after a step that leaves the index idx2 and inserts or promotes
\* id (touched = FALSE for a step that does neither).  It is kept from the
\* calls alone: which key a call touched and which keys left the map.
Stamp(idx2, id, touched) ==
    used' = IF track # "lru" THEN used
            ELSE LET kept == SelectSeq(used, LAMBDA k : ContainsKey(idx2, k)
                                                        /\ ~(touched /\ k = id))
                 IN  IF touched THEN Append(kept, id) ELSE kept

\* History (lru): stale after a read promoted id in the index idx.
StalePromoted(idx, id) ==
    stale' = IF track # "lru" THEN stale
             ELSE [k \in BlockId |-> IF k = id THEN Keys(idx) \ {id} ELSE stale[k] \ {id}]

\* History (lru): stale after a write of id (new = it inserted id) or a clear
\* left the index idx2.  Only stored keys have a record.
StaleWritten(idx2, id, new) ==
    stale' = IF track # "lru" THEN stale
             ELSE [k \in BlockId |->
                      IF (new /\ k = id) \/ ~ContainsKey(idx2, k) THEN {}
                      ELSE (stale[k] \cap Keys(idx2)) \ (IF new THEN {id} ELSE {})]

\* History (lru): the note of a write that took the index from idx to idx2.
EvictionNote(idx, idx2) ==
    IF track # "lru" \/ Removed(idx, idx2) = {} THEN "no"
    ELSE IF \E x \in Keys(idx2) : stale[x] \cap Removed(idx, idx2) # {}
         THEN "evicted a stale key"
    ELSE "evicted"

\* History (data): the buffers of the inserting writes after a write of id
\* with buffer (new = it inserted id) or a clear left the index idx2.
Inserted(idx2, id, buffer, new) ==
    inserted' = IF track # "data" THEN inserted
                ELSE [k \in BlockId |->
                         IF ~ContainsKey(idx2, k) THEN <<>>
                         ELSE IF new /\ k = id THEN buffer
                         ELSE inserted[k]]

\* History (data): what a write that took the index from idx to idx2 did to
\* the id of the observed read.
Raced(idx, idx2) ==
    race' = IF track # "data" \/ pc # "copy" THEN race
            ELSE IF ContainsKey(idx, rid) /\ ~ContainsKey(idx2, rid) /\ race = "no"
                 THEN "evicted"
            ELSE IF ~ContainsKey(idx, rid) /\ ContainsKey(idx2, rid) /\ race = "evicted"
                 THEN "rewritten"
            ELSE race

\* BlockCache::read, first critical section (write lock), id not stored:
\* read returns None and never looks at the buffer.
ReadMiss(id) ==
    /\ pc = "idle"
    /\ ~ContainsKey(index, id)
    /\ last' = Returned("read", id, None, <<>>, "no")
    /\ UNCHANGED <<max_blocks, index, pc, rid, track, inserted, race, used, stale>>
    /\ UNCHANGED <<entryvars, callvars>>

\* BlockCache::read, first critical section (write lock), id stored:
\* get_refresh promotes it, the lock is released.
ReadRefresh(id) ==
    /\ pc = "idle"
    /\ ContainsKey(index, id)
    /\ index' = GetRefresh(index, id)
    /\ pc' = "copy"
    /\ rid' = id
    /\ last' = Returned("promote", id, None, <<>>, "no")
    /\ Stamp(index', id, TRUE)
    /\ StalePromoted(index, id)
    /\ UNCHANGED <<max_blocks, track, inserted, race>>
    /\ UNCHANGED <<entryvars, callvars>>

\* BlockCache::read, second critical section (read lock): the copy.
ReadCopy(buffer) ==
    /\ pc = "copy"
    /\ LET r == ReadCopyResult(index, rid, buffer)
       IN  last' = Returned("read", rid, r.ret, r.buffer, race)
    /\ pc' = "idle"
    /\ rid' = NoId
    /\ race' = "no"
    /\ UNCHANGED <<max_blocks, index, track, inserted, used, stale>>
    /\ UNCHANGED <<entryvars, callvars>>

\* The first critical section of another thread's read that hits, while the
\* observed read is between its two.
Promote(id) ==
    /\ pc = "copy"
    /\ ContainsKey(index, id)
    /\ index' = GetRefresh(index, id)
    /\ last' = Returned("promote", id, None, <<>>, "no")
    /\ Stamp(index', id, TRUE)
    /\ StalePromoted(index, id)
    /\ UNCHANGED <<max_blocks, pc, rid, track, inserted, race>>
    /\ UNCHANGED <<entryvars, callvars>>

\* BlockCache::write, one critical section (write lock).
Write(id, buffer) ==
    /\ index' = WriteIndex(index, max_blocks, id, buffer)
    /\ last' = Returned("write", id, WriteResult(index, max_blocks, id, buffer), <<>>,
                        EvictionNote(index, index'))
    /\ Stamp(index', id, ~ContainsKey(index, id))
    /\ StaleWritten(index', id, ~ContainsKey(index, id))
    /\ Inserted(index', id, buffer, ~ContainsKey(index, id))
    /\ Raced(index, index')
    /\ UNCHANGED <<max_blocks, pc, rid, track>>
    /\ UNCHANGED <<entryvars, callvars>>

\* BlockCache::clear, one critical section (write lock).
Clear ==
    /\ index' = <<>>
    /\ last' = Returned("clear", NoId, None, <<>>, "no")
    /\ Stamp(index', NoId, FALSE)
    /\ StaleWritten(index', NoId, FALSE)
    /\ Inserted(index', NoId, <<>>, FALSE)
    /\ UNCHANGED <<max_blocks, pc, rid, track, race>>
    /\ UNCHANGED <<entryvars, callvars>>

CacheNext ==
    \/ \E id \in BlockId : ReadMiss(id)
    \/ \E id \in BlockId : ReadRefresh(id)
    \/ \E buffer \in ReadBuffers : ReadCopy(buffer)
    \/ \E id \in BlockId : Promote(id)
    \/ \E id \in BlockId, buffer \in WriteBuffers : Write(id, buffer)
    \/ Clear

\* Threads calling read, write and clear on one shared BlockCache, with the
\* history of the data written and of the races on the observed read.
\* No other function is called.
NoCall ==
    /\ call = [op |-> "none"]
    /\ ret = "none"

DataInit == track = "data" /\ CacheInit /\ NoEntry /\ NoCall

SpecCache == DataInit /\ [][CacheNext]_vars

\* The same calls, with the history of the order of use.
LruInit == track = "lru" /\ CacheInit /\ NoEntry /\ NoCall

SpecLru == LruInit /\ [][CacheNext]_vars

\* Entry::read(out): one call, with the reads of the cache it makes.
EntryRead(out, io) ==
    /\ ended \in {"open", "eof", "error"}
    /\ entry.len > 0 \/ entry.id <= MaxBlockIndex
    /\ LET r == EntryReadResult(entry, index, out, io)
       IN  /\ entry' = r.entry
           /\ index' = r.index
           /\ ended' = IF r.outcome = "ok" THEN "open" ELSE r.outcome
           /\ delivered' = IF r.outcome = "ok" THEN delivered \o SubSeq(r.out, 1, r.n)
                           ELSE delivered
           /\ fetched' = IF r.from = "none" THEN fetched ELSE Append(fetched, entry.id)
           /\ failed' = (failed \/ r.outcome = "error")
           /\ last' = Returned("Entry::read", <<TheEntry, entry.id>>,
                               IF r.outcome \in {"ok", "eof"} THEN Some(r.n) ELSE None,
                               r.out, r.from)
    /\ UNCHANGED <<max_blocks, pc, rid, track, inserted, race, used, stale, size>>
    /\ UNCHANGED callvars

\* Another reader of the same entry has put block k into the cache.
CachedByOthers(k) == Write(<<TheEntry, k>>, BlockOf(k))

EntryNext ==
    \/ \E out \in ReadBuffers, io \in StreamIo : EntryRead(out, io)
    \/ \E k \in 0..MaxBlockIndex : CachedByOthers(k)
    \/ Clear

\* Entry::fill_buf(): one call, with the read of the cache it makes.  The
\* model follows an entry up to MaxBlockIndex + 1 fetches.
EntryFillBuf(io) ==
    /\ ended \in {"open", "eof", "error"}
    /\ entry.len > 0 \/ Len(fetched) <= MaxBlockIndex
    /\ LET r == FillBuf(entry, index, io)
       IN  /\ entry' = r.entry
           /\ index' = r.index
           /\ ended' = IF r.outcome = "ok" THEN "open" ELSE r.outcome
           /\ fetched' = IF r.from = "none" THEN fetched ELSE Append(fetched, entry.id)
           /\ failed' = (failed \/ r.outcome = "error")
           /\ last' = Returned("Entry::fill_buf", <<TheEntry, entry.id>>,
                               IF r.outcome \in {"ok", "eof"} THEN Some(Len(r.slice))
                               ELSE None,
                               r.slice, r.from)
    /\ UNCHANGED <<max_blocks, pc, rid, track, inserted, race, used, stale, size, delivered>>
    /\ UNCHANGED callvars

\* Entry::consume(amt): the caller has taken the first amt bytes of the
\* slice fill_buf gave it.
EntryConsume(amt) ==
    /\ ended \in {"open", "eof", "error"}
    /\ entry' = Consume(entry, amt)
    /\ delivered' = delivered \o SubSeq(entry.buf, entry.pos + 1,
                                        Min(entry.pos + Min(amt, entry.len), Len(entry.buf)))
    /\ last' = Returned("Entry::consume", <<TheEntry, entry.id>>, Some(amt), <<>>, "none")
    /\ UNCHANGED <<max_blocks, index, pc, rid, track, inserted, race, used, stale>>
    /\ UNCHANGED <<size, ended, fetched, failed>>
    /\ UNCHANGED callvars

\* One Entry consumed through BufRead alone: fill_buf, then consume of the
\* length of the slice it returned, until fill_buf returns an empty slice or
\* fails, with the cache filled and cleared by other threads in between.
BufReadNext ==
    \/ ended = "open" /\ \E io \in StreamIo : EntryFillBuf(io)
    \/ entry.len > 0 /\ EntryConsume(entry.len)
    \/ \E k \in 0..MaxBlockIndex : CachedByOthers(k)
    \/ Clear

BufReadInit == track = "bufread" /\ CacheInit /\ EntryInit /\ NoCall

SpecBufRead == BufReadInit /\ [][BufReadNext]_vars

\* One Entry with read, fill_buf and consume calls in any order and with any
\* arguments.
MixedNext ==
    \/ \E out \in ReadBuffers, io \in StreamIo : EntryRead(out, io)
    \/ \E io \in StreamIo : EntryFillBuf(io)
    \/ \E amt \in 0..(BLOCK_SIZE + 1) : EntryConsume(amt)
    \/ \E k \in 0..MaxBlockIndex : CachedByOthers(k)
    \/ Clear

MixedInit == track = "mixed" /\ CacheInit /\ EntryInit /\ NoCall

SpecMixed == MixedInit /\ [][MixedNext]_vars

\* One Entry read through Read::read, with the snapshot cache of its
\* provider filled and cleared by other threads in between.
ProviderInit == track = "entry" /\ CacheInit /\ EntryInit /\ NoCall

SpecEntry == ProviderInit /\ [][EntryNext]_vars

\* ----------------------------------------------------------- cache claims

\* Manifest::first_volume_of_path(path) on a manifest of any volumes.
ManifestsUpTo(n) == UNION { [1..k -> Volumes] : k \in 0..n }

VolumesInit ==
    /\ \E vs \in ManifestsUpTo(MaxVolumes), p \in Paths :
          call = [op |-> "first_volume_of_path", volumes |-> vs, path |-> p]
    /\ ret = "pending"

FirstVolumeOfPathCall ==
    /\ call.op = "first_volume_of_path"
    /\ ret = "pending"
    /\ ret' \in FirstVolumeOfPath(call.volumes, call.path)
    /\ UNCHANGED <<cachevars, entryvars, call>>

SearchInit == track = "none" /\ max_blocks = 0 /\ CacheInit /\ NoEntry /\ VolumesInit

SpecVolumes == SearchInit /\ [][FirstVolumeOfPathCall]_vars

\* Manifest::parse on the text of a manifest: the Hostname and Localdir lines
\* and the four lines of each volume record, whole or with its last line cut.
VolumeRecords ==
    LET RecordPaths == {<<1>>, <<2>>}
        RecordBlocks == {None, Some(1)}
    IN
    [num : 1..(MaxRecords + 1),
     start_path : { PathBlock(q, b) : q \in RecordPaths, b \in RecordBlocks },
     end_path : { PathBlock(q, b) : q \in RecordPaths, b \in RecordBlocks }]

PathBlockLine(key, pb) ==
    IF pb.block = None THEN <<key, pb.path>> ELSE <<key, pb.path, pb.block[1]>>

RECURSIVE Text(_)
Text(recs) ==
    IF recs = <<>> THEN << <<"Hostname", "host">>, <<"Localdir", "dir">> >>
    ELSE Text(SubSeq(recs, 1, Len(recs) - 1)) \o
         << <<"Volume", recs[Len(recs)].num>>,
            PathBlockLine("StartingPath", recs[Len(recs)].start_path),
            PathBlockLine("EndingPath", recs[Len(recs)].end_path),
            <<"Hash", "SHA1", "hash">> >>

\* The lines as the input holds them, each ended by the bytes eol.
Written(lines, eol) == [i \in 1..Len(lines) |-> [words |-> lines[i], end |-> eol]]

\* The parser's position ("header", "volumes", "done"), the input left, the
\* volumes pushed and, when done, the Result.
Parser(at, rest, volumes, result) ==
    [pc |-> at, rest |-> rest, volumes |-> volumes, result |-> result]

ParseResult(ok, error, n, volumes) ==
    [ok |-> ok, error |-> error, n |-> n, volumes |-> volumes]

Failed(error, n) == Parser("done", <<>>, <<>>, ParseResult(FALSE, error, n, <<>>))

ParseInit ==
    /\ \E recs \in UNION { [1..k -> VolumeRecords] : k \in 0..MaxRecords }, cut \in 0..1 :
          call = [op |-> "parse", records |-> recs, cut |-> cut,
                  input |-> Written(SubSeq(Text(recs), 1, Len(Text(recs)) - cut), <<LF>>)]
    /\ ret = Parser("header", <<>>, <<>>, ParseResult(FALSE, "none", 0, <<>>))

\* ManifestParser::parse, lines 232-237.
ParseStart ==
    /\ call.op = "parse"
    /\ ret.pc = "header"
    /\ LET h == ParseHeader(call.input)
       IN  ret' = IF h.ok THEN Parser("volumes", h.rest, <<>>, ret.result)
                  ELSE Failed(h.error, 0)
    /\ UNCHANGED <<cachevars, entryvars, call>>

\* ManifestParser::parse, one turn of the loop of lines 238-244, and the
\* return of lines 246-250 when read_volume finds the end of the input.
ParseVolume ==
    /\ call.op = "parse"
    /\ ret.pc = "volumes"
    /\ LET v == ReadVolume(ret.rest)
       IN  ret' = IF ~v.ok THEN Failed(v.error, 0)
                  ELSE IF ~v.some
                  THEN Parser("done", v.rest, ret.volumes,
                              ParseResult(TRUE, "none", 0, ret.volumes))
                  ELSE IF OutOfOrder(v.num, ret.volumes)
                  THEN Failed("OutOfOrderVolume", v.num)
                  ELSE Parser("volumes", v.rest, Append(ret.volumes, v.vol), ret.result)
    /\ UNCHANGED <<cachevars, entryvars, call>>

ParseNext == ParseStart \/ ParseVolume

ParserInit == track = "none" /\ max_blocks = 0 /\ CacheInit /\ NoEntry /\ ParseInit

SpecParse == ParserInit /\ [][ParseNext]_vars

\* Manifest texts with an empty line: k well-numbered records, the lines
\* ended by "\n" or by "\r\n", and a line without words ("\n" or "\r\n")
\* put after the first blank lines of the text (blank is a number of lines).
NumberedRecords(k) ==
    [i \in 1..k |-> [num |-> i,
                     start_path |-> PathBlock(<<1>>, None),
                     end_path |-> PathBlock(<<2>>, None)]]

LineEnds == {<<LF>>, <<CR, LF>>}

WithEmptyLine(lines, blank, end) ==
    SubSeq(lines, 1, blank) \o <<[words |-> <<>>, end |-> end]>> \o
    SubSeq(lines, blank + 1, Len(lines))

EmptyLineInit ==
    /\ \E k \in 0..MaxRecords, eol \in LineEnds, end \in LineEnds :
       \E blank \in 0..Len(Text(NumberedRecords(k))) :
          call = [op |-> "parse", records |-> NumberedRecords(k), blank |-> blank,
                  end |-> end,
                  input |-> WithEmptyLine(Written(Text(NumberedRecords(k)), eol),
                                          blank, end)]
    /\ ret = Parser("header", <<>>, <<>>, ParseResult(FALSE, "none", 0, <<>>))

BlankInit == track = "none" /\ max_blocks = 0 /\ CacheInit /\ NoEntry /\ EmptyLineInit

SpecEmptyLine == BlankInit /\ [][ParseNext]_vars

\* unescape on the word a writer makes of the bytes s: every byte outside
\* [A-Za-z0-9_./:-] written as \xHH, the whole between double quotes.  The
\* bytes tried: space, LF, '"', '*', '-', '0', 'A', '\\', 'x', 0x90, 0xff.
WordBytes == {32, 10, 34, 42, 45, 48, 65, 92, 120, 144, 255}

IsPlain(b) ==
    \/ b \in 65..90
    \/ b \in 97..122
    \/ b \in 48..57
    \/ b \in {95, 46, 47, 58, 45}

HexDigit(n, upper) == IF n < 10 THEN 48 + n ELSE IF upper THEN 55 + n ELSE 87 + n

RECURSIVE Escape(_, _)
Escape(s, upper) ==
    IF s = <<>> THEN <<>>
    ELSE (IF IsPlain(Head(s)) THEN <<Head(s)>>
          ELSE <<92, 120, HexDigit(Head(s) \div 16, upper), HexDigit(Head(s) % 16, upper)>>)
         \o Escape(Tail(s), upper)

QuoteAndEscape(s, upper) == <<34>> \o Escape(s, upper) \o <<34>>

UnescapeInit ==
    /\ \E s \in UNION { [1..k -> WordBytes] : k \in 0..MaxWordLen }, upper \in BOOLEAN :
          call = [op |-> "unescape", s |-> s, word |-> QuoteAndEscape(s, upper)]
    /\ ret = [pc |-> "pending", value |-> <<>>]

UnescapeCall ==
    /\ call.op = "unescape"
    /\ ret.pc = "pending"
    /\ ret' = [pc |-> "done", value |-> Unescape(call.word)]
    /\ UNCHANGED <<cachevars, entryvars, call>>

WordInit == track = "none" /\ max_blocks = 0 /\ CacheInit /\ NoEntry /\ UnescapeInit

SpecUnescape == WordInit /\ [][UnescapeCall]_vars

\* ------------------------------------------------------------ collections
\* File names are strings; a string is the sequence of its characters.
StartsWith(s, p) == Len(s) >= Len(p) /\ SubSeq(s, 1, Len(p)) = p

\* str::ends_with
EndsWith(s, p) == Len(s) >= Len(p) /\ SubSeq(s, Len(s) - Len(p) + 1, Len(s)) = p

Drop(s, n) == SubSeq(s, n + 1, Len(s))

UpperCase == <<"A", "B", "C", "D", "E", "F", "G", "H", "I", "J", "K", "L", "M", "N", "O", "P", "Q", "R", "S", "T", "U", "V", "W", "X", "Y", "Z">>

LowerCase == <<"a", "b", "c", "d", "e", "f", "g", "h", "i", "j", "k", "l", "m", "n", "o", "p", "q", "r", "s", "t", "u", "v", "w", "x", "y", "z">>

\* str::to_ascii_lowercase: 'A'..'Z' become 'a'..'z', every other character
\* stays.
ToAsciiLowercase(s) ==
    [i \in 1..Len(s) |->
        IF \E k \in 1..Len(UpperCase) : UpperCase[k] = s[i]
        THEN LowerCase[CHOOSE k \in 1..Len(UpperCase) : UpperCase[k] = s[i]]
        ELSE s[i]]

\* The literals of the two regular expressions and of the suffix tests.
DuplicityFull == <<"d", "u", "p", "l", "i", "c", "i", "t", "y", "-", "f", "u", "l", "l", ".">>

DotVol == <<".", "v", "o", "l">>

DotDifftar == <<".", "d", "i", "f", "f", "t", "a", "r">>

DotManifest == <<".", "m", "a", "n", "i", "f", "e", "s", "t">>

DotPart == <<".", "p", "a", "r", "t">>

DotGz == <<".", "g", "z">>

DotZ == <<".", "z">>

DotGpg == <<".", "g", "p", "g">>

DotG == <<".", "g">>

DecimalDigits == <<"0", "1", "2", "3", "4", "5", "6", "7", "8", "9">>

IsDigit(c) == \E k \in 1..Len(DecimalDigits) : DecimalDigits[k] = c

\* [0-9]+ is greedy: the number of digits s starts with.
RECURSIVE DigitRun(_)
DigitRun(s) == IF s # <<>> /\ IsDigit(Head(s)) THEN 1 + DigitRun(Tail(s)) ELSE 0

\* ($|\.)
EndOrDot(s) == s = <<>> \/ Head(s) = "."

\* (?P<partial>(\.part))?($|\.) matched at the start of s: whether it
\* matches and whether the group partial took part (the group is greedy: it
\* is skipped only when the match fails with it).
PartialThenEnd(s) ==
    IF StartsWith(s, DotPart) /\ EndOrDot(Drop(s, Len(DotPart)))
    THEN [matches |-> TRUE, partial |-> TRUE]
    ELSE [matches |-> EndOrDot(s), partial |-> FALSE]

\* \.vol(?P<num>[0-9]+)\.difftar(?P<partial>(\.part))?($|\.) matched at the
\* start of s.
VolTail(s) ==
    LET r == Drop(s, Len(DotVol))
        n == DigitRun(r)
        t == Drop(r, n)
    IN  IF StartsWith(s, DotVol) /\ n >= 1 /\ StartsWith(t, DotDifftar)
        THEN [matches |-> PartialThenEnd(Drop(t, Len(DotDifftar))).matches,
              num |-> SubSeq(r, 1, n)]
        ELSE [matches |-> FALSE, num |-> <<>>]

\* \.manifest(?P<partial>(\.part))?($|\.) matched at the start of s.
ManifestTail(s) ==
    IF StartsWith(s, DotManifest)
    THEN PartialThenEnd(Drop(s, Len(DotManifest)))
    ELSE [matches |-> FALSE, partial |-> FALSE]

\* The lengths (?P<time>.*?) can take so that the rest of full_vol_re
\* matches; the group is lazy and takes the least.
VolTimeLengths(rest) == { i \in 0..Len(rest) : VolTail(Drop(rest, i)).matches }

\* The same for full_manifest_re.
ManifestTimeLengths(rest) == { i \in 0..Len(rest) : ManifestTail(Drop(rest, i)).matches }

LeastOf(S) == CHOOSE i \in S : \A j \in S : i <= j

\* full_vol_re.captures(filename): None, or the groups time and num.
FullVolRe(filename) ==
    LET rest == Drop(filename, Len(DuplicityFull))
        at == VolTimeLengths(rest)
    IN  IF StartsWith(filename, DuplicityFull) /\ at # {}
        THEN <<[time |-> SubSeq(rest, 1, LeastOf(at)),
                num |-> VolTail(Drop(rest, LeastOf(at))).num]>>
        ELSE <<>>

\* full_manifest_re.captures(filename): None, or the groups time and partial.
FullManifestRe(filename) ==
    LET rest == Drop(filename, Len(DuplicityFull))
        at == ManifestTimeLengths(rest)
    IN  IF StartsWith(filename, DuplicityFull) /\ at # {}
        THEN <<[time |-> SubSeq(rest, 1, LeastOf(at)),
                partial |-> ManifestTail(Drop(rest, LeastOf(at))).partial]>>
        ELSE <<>>

\* FileNameParser::get_vol_num: s.parse::<i32>().ok().  The digits are taken
\* from the left with checked arithmetic; a number above i32::MAX does not
\* parse.
RECURSIVE GetVolNum(_)
GetVolNum(s) ==
    IF s = <<>> THEN <<0>>
    ELSE LET acc == GetVolNum(SubSeq(s, 1, Len(s) - 1))
             d == (CHOOSE k \in 1..Len(DecimalDigits) : DecimalDigits[k] = s[Len(s)]) - 1
         IN  IF acc = <<>> THEN <<>>
             ELSE IF acc[1] > (2147483647 - d) \div 10 THEN <<>>
             ELSE <<10 * acc[1] + d>>

\* FileName::new
FileNameNew ==
    [file_type |-> "Full", manifest |-> FALSE, volume_number |-> 0, time |-> <<>>,
     compressed |-> FALSE, encrypted |-> FALSE, partial |-> FALSE]

\* FileNameParser::check_full: None, or the FileName of a volume or of a
\* manifest.
CheckFull(filename) ==
    LET vol == FullVolRe(filename)
        man == FullManifestRe(filename)
    IN  IF vol # <<>>
        THEN IF GetVolNum(vol[1].num) = <<>> THEN <<>>
             ELSE <<[FileNameNew EXCEPT !.volume_number = GetVolNum(vol[1].num)[1],
                                        !.time = vol[1].time]>>
        ELSE IF man # <<>>
        THEN <<[FileNameNew EXCEPT !.manifest = TRUE,
                                   !.time = man[1].time,
                                   !.partial = man[1].partial]>>
        ELSE <<>>

\* Mutant of IsEncrypted: only the long suffix counts.
IsEncryptedGpgOnly(s) == EndsWith(s, DotGpg)

\* FileNameParser::is_encrypted
IsEncrypted(s) == EndsWith(s, DotGpg) \/ EndsWith(s, DotG)

\* FileNameParser::is_compressed
IsCompressed(s) == EndsWith(s, DotGz) \/ EndsWith(s, DotZ)

\* FileNameParser::parse: None, or the FileName with compressed and
\* encrypted set from the lowercased name.
FileNameParse(filename) ==
    LET lower_fname == ToAsciiLowercase(filename)
        opt_result == CheckFull(lower_fname)
    IN  IF opt_result = <<>> THEN <<>>
        ELSE <<[opt_result[1] EXCEPT !.compressed = IsCompressed(lower_fname),
                                     !.encrypted = IsEncrypted(lower_fname)]>>

\* The names the model classifies: a head, a time, a body, ".part" or not,
\* and up to MaxSuffixes suffixes, in lower, upper and mixed case; some are
\* volumes, some manifests, some neither.
RECURSIVE Concat(_)
Concat(ss) == IF ss = <<>> THEN <<>> ELSE Head(ss) \o Concat(Tail(ss))

FileNames ==
    LET
        Heads == {<<"d", "u", "p", "l", "i", "c", "i", "t", "y", "-", "f", "u", "l", "l", ".">>,
                  <<"D", "u", "p", "l", "i", "c", "i", "t", "y", "-", "F", "U", "L", "L", ".">>,
                  <<"d", "u", "p", "l", "i", "c", "i", "t", "y", "-", "i", "n", "c", ".">>}

        Times == {<<"t">>, <<"2", "Z">>}

        Bodies == {<<".", "v", "o", "l", "1", ".", "d", "i", "f", "f", "t", "a", "r">>,
                   <<".", "V", "O", "L", "1", "2", ".", "D", "i", "f", "f", "T", "a", "r">>,
                   <<".", "m", "a", "n", "i", "f", "e", "s", "t">>,
                   <<".", "M", "a", "n", "i", "f", "e", "s", "t">>,
                   <<".", "v", "o", "l", ".", "d", "i", "f", "f", "t", "a", "r">>,
                   <<".", "v", "o", "l", "3", "0", "0", "0", "0", "0", "0", "0", "0", "0", ".", "d", "i", "f", "f", "t", "a", "r">>}

        Parts == {<<>>, <<".", "p", "a", "r", "t">>, <<".", "P", "a", "r", "t">>}

        Suffixes == {<<".", "g", "z">>, <<".", "G", "Z">>, <<".", "z">>, <<".", "g", "p", "g">>, <<".", "G">>, <<".", "G", "p", "g">>,
                     <<"g", "z">>, <<".", "t", "g", "z">>, <<".", "x">>}
    IN  { h \o t \o b \o p \o Concat(x) :
            h \in Heads, t \in Times, b \in Bodies, p \in Parts,
            x \in UNION { [1..k -> Suffixes] : k \in 0..MaxSuffixes } }

ParseNameInit ==
    /\ \E filename \in FileNames : call = [op |-> "FileNameParser::parse", filename |-> filename]
    /\ ret = [pc |-> "pending", value |-> <<>>]

FileNameParseCall ==
    /\ call.op = "FileNameParser::parse"
    /\ ret.pc = "pending"
    /\ ret' = [pc |-> "done", value |-> FileNameParse(call.filename)]
    /\ UNCHANGED <<cachevars, entryvars, call>>

NameInit == track = "none" /\ max_blocks = 0 /\ CacheInit /\ NoEntry /\ ParseNameInit

SpecFileName == NameInit /\ [][FileNameParseCall]_vars

\* ---------------------------------------------------- BlockProvider::volume
\* A backup set as volume reads it: its two flags and the number of its
\* volume files, numbered from 1.
BackupSets == [is_encrypted : BOOLEAN, is_compressed : BOOLEAN, volumes : 0..MaxVolumes]

\* The backup chains the model opens volumes of: up to MaxSets sets.
BackupChains == UNION { [1..k -> BackupSets] : k \in 0..MaxSets }

\* BackupChain::nth_set(snapnum): the set at the position, counted from 0.
NthSet(back, snapnum) == IF snapnum < Len(back) THEN Some(back[snapnum + 1]) ELSE None

\* BackupSet::volume_path(volnum): the file name of the volume; the model
\* names the file by the volume's number.
VolumePath(backup_set, volnum) ==
    IF volnum \in 1..backup_set.volumes THEN Some(volnum) ELSE None

\* What Backend::open_file and GzDecoder::new come to: both are io::Result.
IoResult == {"ok", "error"}

\* What volume returns, with the files it asked the backend to open and
\* whether it handed the file to GzDecoder::new.
VolumeResult(result, value, opened, wrapped) ==
    [result |-> result, value |-> value, opened |-> opened, wrapped |-> wrapped]

\* Mutant of ProviderVolume: the file is opened before the set's encryption
\* is looked at.
ProviderVolumeOpeningFirst(back, snapnum, volnum, open, gz) ==
    LET backup_set == NthSet(back, snapnum)
        vol_path == VolumePath(backup_set[1], volnum)
    IN  IF backup_set = None THEN VolumeResult("Err", "NotFound", <<>>, FALSE)
        ELSE IF vol_path = None THEN VolumeResult("Err", "NotFound", <<>>, FALSE)
        ELSE IF open = "error" THEN VolumeResult("Err", "Io", vol_path, FALSE)
        ELSE IF backup_set[1].is_encrypted THEN VolumeResult("Err", "Other", vol_path, FALSE)
        ELSE IF backup_set[1].is_compressed
        THEN IF gz = "error" THEN VolumeResult("Err", "Io", vol_path, TRUE)
             ELSE VolumeResult("Ok", "GzDecoder", vol_path, TRUE)
        ELSE VolumeResult("Ok", "rawfile", vol_path, FALSE)

\* BlockProvider::volume(snapnum, volnum) on the backup chain back, open and
\* gz being what open_file and GzDecoder::new come to if they are called.
ProviderVolume(back, snapnum, volnum, open, gz) ==
    LET backup_set == NthSet(back, snapnum)
        vol_path == VolumePath(backup_set[1], volnum)
    IN  IF backup_set = None THEN VolumeResult("Err", "NotFound", <<>>, FALSE)
        ELSE IF vol_path = None THEN VolumeResult("Err", "NotFound", <<>>, FALSE)
        ELSE IF backup_set[1].is_encrypted THEN VolumeResult("Err", "Other", <<>>, FALSE)
        ELSE IF open = "error" THEN VolumeResult("Err", "Io", vol_path, FALSE)
        ELSE IF backup_set[1].is_compressed
        THEN IF gz = "error" THEN VolumeResult("Err", "Io", vol_path, TRUE)
             ELSE VolumeResult("Ok", "GzDecoder", vol_path, TRUE)
        ELSE VolumeResult("Ok", "rawfile", vol_path, FALSE)

OpenVolumeInit ==
    /\ \E back \in BackupChains, snapnum \in 0..MaxSets, volnum \in 0..(MaxVolumes + 1),
          open \in IoResult, gz \in IoResult :
          call = [op |-> "volume", back |-> back, snapnum |-> snapnum, volnum |-> volnum,
                  open |-> open, gz |-> gz]
    /\ ret = [pc |-> "pending", value |-> <<>>]

ProviderVolumeCall ==
    /\ call.op = "volume"
    /\ ret.pc = "pending"
    /\ ret' = [pc |-> "done",
               value |-> ProviderVolume(call.back, call.snapnum, call.volnum,
                                        call.open, call.gz)]
    /\ UNCHANGED <<cachevars, entryvars, call>>

OpenInit == track = "none" /\ max_blocks = 0 /\ CacheInit /\ NoEntry /\ OpenVolumeInit

SpecVolume == OpenInit /\ [][ProviderVolumeCall]_vars

\* ------------------------------------------------------- BlockProvider::new
\* enum CacheType
CacheType == {"Snapshot", "Signature"}

\* Mutant of TruncatedShare: the product is rounded to the nearest integer.
RoundedShare(cache_size, tenths) == (cache_size * tenths + 5) \div 10

\* (cache_size as f64 * 0.4) as usize and (cache_size as f64 * 0.6) as usize:
\* the cast to usize drops the fraction.  The f64 product of an integer and
\* the double nearest to tenths/10 is within half a unit in the last place
\* of the exact product, so for the sizes of the model the result is the
\* integer part of cache_size * tenths / 10.
TruncatedShare(cache_size, tenths) == (cache_size * tenths) \div 10

\* BlockProvider::new: max_blocks of the two caches it creates.
BlockProviderNew(cache_size) ==
    [dcache |-> TruncatedShare(cache_size, 4),
     scache |-> TruncatedShare(cache_size, 6)]

\* BlockProvider::read_cached_block: the cache it reads for ctype.
CacheFor(ctype) == IF ctype = "Snapshot" THEN "scache" ELSE "dcache"

NewProviderInit ==
    /\ \E cache_size \in 0..MaxCacheSize :
          call = [op |-> "BlockProvider::new", cache_size |-> cache_size]
    /\ ret = [pc |-> "pending"]

BlockProviderNewCall ==
    /\ call.op = "BlockProvider::new"
    /\ ret.pc = "pending"
    /\ ret' = [pc |-> "new", provider |-> BlockProviderNew(call.cache_size)]
    /\ UNCHANGED <<cachevars, entryvars, call>>

\* read_cached_block(id, buf, ctype) on the new provider: the cache it reads
\* and that cache's max_blocks.
ReadCachedBlockCall(ctype) ==
    /\ call.op = "BlockProvider::new"
    /\ ret.pc = "new"
    /\ ret' = [pc |-> "read", provider |-> ret.provider, ctype |-> ctype,
               cache |-> CacheFor(ctype),
               max_blocks |-> ret.provider[CacheFor(ctype)]]
    /\ UNCHANGED <<cachevars, entryvars, call>>

SizingNext ==
    \/ BlockProviderNewCall
    \/ \E ctype \in CacheType : ReadCachedBlockCall(ctype)

SizingInit == track = "none" /\ max_blocks = 0 /\ CacheInit /\ NoEntry /\ NewProviderInit

SpecSizing == SizingInit /\ [][SizingNext]_vars

\* C1: for a BlockCache created with any max_blocks, after every sequence
\* of read, write and clear calls the number of stored entries is between 0
\* and max_blocks.
C1_EntriesWithinMaxBlocks == Len(index) <= max_blocks

\* The step just taken is a write of a key the cache did not hold.
WriteOfNewKey == last'.op = "write" /\ ~ContainsKey(index, last'.id)

\* C2: a write of a key the cache does not hold, to a cache that holds
\* max_blocks >= 1 entries, removes exactly one key, the one used longest
\* ago (a use is the insertion by write or the promotion by a read that
\* hits); every other key keeps its bytes, the new key is stored and the
\* number of entries stays max_blocks.
C2_EvictsLeastRecentlyUsed ==
    [][(WriteOfNewKey /\ max_blocks >= 1 /\ Len(index) = max_blocks) =>
          /\ Removed(index, index') = {Head(used)}
          /\ Keys(index') = (Keys(index) \ {Head(used)}) \cup {last'.id}
          /\ \A k \in Keys(index) \ {Head(used)} : Get(index', k) = Get(index, k)
          /\ Len(index') = max_blocks]_vars

\* C2's case: a cache of two entries was full, and a write replaced the
\* older one although it was not the one at the lower block index.
C2_Witness ==
    /\ max_blocks = 2
    /\ last.op = "write"
    /\ last.note # "no"
    /\ last.id = <<TheEntry, 0>>
    /\ Keys(index) = {<<TheEntry, 0>>, <<TheEntry, 1>>}

\* C3: a read that hits makes its id the most recently used entry: no key is
\* stale for it any more, it is the last in the order of use and at the back
\* of the map; and a write never removes a key while a key stays that has
\* not been used since a read promoted the removed one.
C3_ReadPromotes ==
    [][/\ last'.op = "promote" =>
            /\ index' # <<>>
            /\ index'[Len(index')].id = last'.id
            /\ used'[Len(used')] = last'.id
            /\ Keys(index') = Keys(index)
       /\ last'.op = "write" =>
            \A x \in Removed(index, index') : stale[x] = {}]_vars

\* C3's case: a read promoted a key, and the next new key displaced a key
\* that had not been used since, not the promoted one.
C3_Witness ==
    /\ last.op = "write"
    /\ last.note = "evicted a stale key"
    /\ max_blocks = 2

\* C4: a write of a key the cache holds returns None and changes nothing:
\* the keys, the bytes of every entry and the order are as before.
C4_RewriteChangesNothing ==
    [][(last'.op = "write" /\ ContainsKey(index, last'.id)) =>
          (last'.val = None /\ index' = index)]_vars

\* C4's case: a write of the key at the front of a full cache of two.
C4_Witness ==
    /\ last.op = "write"
    /\ last.val = None
    /\ Len(index) = 2
    /\ index[1].id = last.id

\* The first n bytes of s.
Prefix(s, n) == SubSeq(s, 1, Min(n, Len(s)))

\* C5: a write of a key the cache does not hold returns
\* min(len(data), BLOCK_SIZE) and stores that prefix of data; a read of a
\* stored key returns min(stored length, len(buf)) and leaves exactly that
\* many of the bytes written for it at the start of buf; a read of a key
\* that is not stored returns None.
C5_WriteThenRead ==
    [][/\ WriteOfNewKey =>
            /\ last'.val = Some(Min(Len(inserted'[last'.id]), BLOCK_SIZE))
            /\ Get(index', last'.id) = Prefix(inserted'[last'.id], BLOCK_SIZE)
       /\ (last'.op = "read" /\ ContainsKey(index, last'.id)) =>
            LET stored == Prefix(inserted[last'.id], BLOCK_SIZE)
                n == Min(Len(stored), Len(last'.buffer))
            IN  /\ last'.val = Some(n)
                /\ Prefix(last'.buffer, n) = Prefix(stored, n)
       /\ (last'.op = "read" /\ ~ContainsKey(index, last'.id)) =>
            last'.val = None]_vars

\* C5's case: data longer than a block was written and read back into a
\* buffer longer than a block.
C5_Witness ==
    /\ last.op = "read"
    /\ last.val = Some(BLOCK_SIZE)
    /\ Len(last.buffer) > BLOCK_SIZE
    /\ Len(inserted[last.id]) > BLOCK_SIZE

\* C6: for a BlockCache created with max_blocks = 0, every write is a no-op
\* (nothing is stored) and every read returns None.
C6_ZeroCapacityStoresNothing ==
    max_blocks = 0 => (index = <<>> /\ (last.op = "read" => last.val = None))

\* C7 as claimed: when a concurrent write evicts id after the read of id
\* promoted it and before the read copies, that read returns None.  Caches of
\* max_blocks = 0 are left out: what they store is C1's and C6's matter.
C7_EvictedReadReturnsNone ==
    [][(max_blocks >= 1 /\ pc = "copy" /\ pc' = "idle" /\ race \in {"evicted", "rewritten"}) =>
          last'.val = None]_vars

\* C7 as amended: when a concurrent write evicts id after the read of id
\* promoted it and before the read copies, and no write stores id again
\* before the copy, that read returns None.
C7_EvictedNotRewrittenReturnsNone ==
    [][(pc = "copy" /\ pc' = "idle" /\ race = "evicted") => last'.val = None]_vars

\* C7's case: the observed read promoted its id, a write evicted the id, and
\* the read then copied.
C7_Witness ==
    /\ max_blocks >= 1
    /\ last.op = "read"
    /\ last.note = "evicted"
    /\ last.val = None

\* The bytes of the blocks s names, in the order of s.
RECURSIVE BlocksBytes(_)
BlocksBytes(s) == IF s = <<>> THEN <<>> ELSE BlockOf(Head(s)) \o BlocksBytes(Tail(s))

\* C8: within one Entry consumed through read, the blocks are fetched in the
\* order 0, 1, 2, ..., each once, and the reads return the blocks' bytes in
\* that order: after every call, the bytes returned so far followed by the
\* bytes buffered for the next calls (buf[pos..pos + len]) are the bytes of
\* the fetched blocks.  Caches of max_blocks = 0 are left out: what they
\* store is C1's and C6's matter.
C8_BlocksInOrder ==
    max_blocks >= 1 =>
        /\ fetched = [i \in 1..Len(fetched) |-> i - 1]
        /\ entry.pos + entry.len <= Len(entry.buf)
        /\ delivered \o SubSeq(entry.buf, entry.pos + 1, entry.pos + entry.len) =
              BlocksBytes(fetched)

\* C9: reading an Entry with repeated read calls, for any sizes of the output
\* buffers and any mix of cache hits and misses, until read returns 0 yields
\* the entry's original bytes: every call returns (bytes, 0 or the stream's
\* I/O error; it does not panic), and when read returns 0 at
\* the end of the stream the bytes returned are the original bytes, each once
\* and in order.
C9_ReadToEndYieldsContent ==
    /\ ended \in {"open", "eof", "error"}
    /\ ended = "eof" => delivered = Content

\* C10: when a read's fill_block misses the cache and reads block
\* (entry_id, k) from the BlockStream, the block is in the provider's cache
\* when the read returns.
C10_MissedBlockIsCached ==
    [][(max_blocks >= 1 /\ last'.op = "Entry::read" /\ last'.note = "stream") =>
          ContainsKey(index', last'.id)]_vars

Containing(vs, p) ==
    { i \in 1..Len(vs) : Leq(vs[i].start_path.path, p) /\ Leq(p, vs[i].end_path.path) }

Least(S) == CHOOSE x \in S : \A y \in S : x <= y

PathOrdered(vs) ==
    \A i \in 1..(Len(vs) - 1) : Leq(vs[i].end_path.path, vs[i + 1].start_path.path)

Searched == call.op = "first_volume_of_path" /\ ret # "pending"

\* C12 as claimed: for every manifest whose adjacent volumes satisfy
\* end(V_i) <= start(V_i+1), and every path p in the [start, end] range of at
\* least one volume, first_volume_of_path(p) returns the smallest number of a
\* volume that contains p.
C12_SmallestContainingVolume ==
    (Searched /\ PathOrdered(call.volumes) /\ Containing(call.volumes, call.path) # {}) =>
        ret = Some(Least(Containing(call.volumes, call.path)))

\* Manifests as duplicity writes them: every volume has start <= end, the
\* volumes are in path order, and a volume has a start block > 0 exactly when
\* it starts at the path the volume before it ends at (a file continued from
\* that volume); the first volume continues nothing.
StartsInside(v) == v.start_path.block # None /\ v.start_path.block[1] > 0

Continued(vs) ==
    /\ \A i \in 1..Len(vs) : Leq(vs[i].start_path.path, vs[i].end_path.path)
    /\ PathOrdered(vs)
    /\ vs # <<>> => ~StartsInside(vs[1])
    /\ \A i \in 1..(Len(vs) - 1) :
          StartsInside(vs[i + 1]) <=> vs[i].end_path.path = vs[i + 1].start_path.path

\* C12 as amended: ... for every manifest as duplicity writes them and every
\* path p in the range of at least one volume, first_volume_of_path(p)
\* returns the smallest number of a volume that contains p.
C12_SmallestContainingVolumeContinued ==
    (Searched /\ Continued(call.volumes) /\ Containing(call.volumes, call.path) # {}) =>
        ret = Some(Least(Containing(call.volumes, call.path)))

\* C12's case: a path that three volumes of such a manifest contain, found in
\* the first of them.
C12_Witness ==
    /\ Searched
    /\ Continued(call.volumes)
    /\ Containing(call.volumes, call.path) = {1, 2, 3}
    /\ ret = Some(1)

\* Volume i ends at the path p and volume i + 1 starts inside the file at p.
TieAt(vs, i, p) ==
    /\ vs[i].end_path.path = p
    /\ vs[i + 1].start_path.path = p
    /\ StartsInside(vs[i + 1])

C14_SingleVolume ==
    (Searched /\ Len(call.volumes) = 1) =>
        ret = IF Containing(call.volumes, call.path) = {1} THEN Some(1) ELSE None

\* C14 as amended: for a manifest with a single volume that has start_path <=
\* end_path and no start_block > 0, ...
C14_SingleVolumeFromItsStart ==
    (/\ Searched
     /\ Len(call.volumes) = 1
     /\ Leq(call.volumes[1].start_path.path, call.volumes[1].end_path.path)
     /\ ~StartsInside(call.volumes[1])) =>
        ret = IF Containing(call.volumes, call.path) = {1} THEN Some(1) ELSE None

\* C14's case: a path strictly between the start and the end of the only
\* volume, found in volume 1.
C14_Witness ==
    /\ Searched
    /\ Len(call.volumes) = 1
    /\ ~StartsInside(call.volumes[1])
    /\ Cmp(call.volumes[1].start_path.path, call.path) = "Less"
    /\ Cmp(call.path, call.volumes[1].end_path.path) = "Less"
    /\ ret = Some(1)

\* Option<usize> in order: None before every Some(n).
BlockRank(b) == IF b = None THEN 0 ELSE b[1] + 1

\* (path, block) pairs in order: by path in byte order, then by block.
PathBlockLeq(a, b) ==
    \/ Cmp(a.path, b.path) = "Less"
    \/ a.path = b.path /\ BlockRank(a.block) <= BlockRank(b.block)

Parsed == call.op = "parse" /\ ret.pc = "done"

\* C15: every Manifest that Manifest::parse returns has its volumes in path
\* order: for every adjacent pair, (V_i.end_path, V_i.end_block) <=
\* (V_i+1.start_path, V_i+1.start_block).
C15_ParsedVolumesInPathOrder ==
    (Parsed /\ ret.result.ok) =>
        \A i \in 1..(Len(ret.result.volumes) - 1) :
            PathBlockLeq(ret.result.volumes[i].end_path,
                         ret.result.volumes[i + 1].start_path)

\* The first record of recs whose number is not its place, or 0.
FirstMisnumbered(recs) ==
    IF \A i \in 1..Len(recs) : recs[i].num = i THEN 0
    ELSE Least({ i \in 1..Len(recs) : recs[i].num # i })

\* C16: of a whole manifest text, parse accepts the volume records only when
\* their numbers are 1, 2, 3, ... in that order, and then returns a Manifest
\* of these volumes (of none when there is no record); at the first record
\* whose number n is not one more than the count of volumes accepted it
\* returns OutOfOrderVolume(n).
C16_DenseVolumeNumbers ==
    (Parsed /\ call.cut = 0) =>
        LET bad == FirstMisnumbered(call.records)
        IN  IF bad = 0
            THEN /\ ret.result.ok
                 /\ ret.result.volumes =
                      [i \in 1..Len(call.records) |->
                          Volume(call.records[i].start_path, call.records[i].end_path)]
            ELSE ret.result = ParseResult(FALSE, "OutOfOrderVolume",
                                          call.records[bad].num, <<>>)

\* C16's case: the second record repeats the number 1 and parse returns
\* OutOfOrderVolume(1).
C16_Witness ==
    /\ Parsed
    /\ call.cut = 0
    /\ Len(call.records) = 2
    /\ call.records[1].num = 1
    /\ ret.result = ParseResult(FALSE, "OutOfOrderVolume", 1, <<>>)

\* C17: for every byte sequence s, unescape applied to the word that writes
\* every byte of s outside [A-Za-z0-9_./:-] as \xHH between double quotes
\* returns s.
C17_UnescapeInvertsEscape ==
    (call.op = "unescape" /\ ret.pc = "done") => ret.value = call.s

\* The suffix test of the claim, on the characters of the name itself: the
\* name's last Len(p) characters are those of p, whatever their case.
EndsIn(name, p) ==
    /\ Len(name) >= Len(p)
    /\ \A i \in 1..Len(p) :
          LET c == name[Len(name) - Len(p) + i]
          IN  c = p[i] \/ \E k \in 1..Len(LowerCase) : LowerCase[k] = p[i] /\ UpperCase[k] = c

Accepted == call.op = "FileNameParser::parse" /\ ret.pc = "done" /\ ret.value # <<>>

\* C18: for every name the classifier accepts (volume or manifest, any
\* letter case), the returned FileName has compressed = true exactly when
\* the lowercased name ends in .gz or .z, and encrypted = true exactly when
\* the lowercased name ends in .gpg or .g.
C18_FlagsFollowSuffix ==
    Accepted =>
        /\ ret.value[1].compressed <=>
              (EndsIn(call.filename, DotGz) \/ EndsIn(call.filename, DotZ))
        /\ ret.value[1].encrypted <=>
              (EndsIn(call.filename, DotGpg) \/ EndsIn(call.filename, DotG))

\* An accepted volume name in upper case that ends in .G: encrypted and not
\* compressed.
C18_Witness ==
    /\ Accepted
    /\ ~ret.value[1].manifest
    /\ call.filename # ToAsciiLowercase(call.filename)
    /\ EndsIn(call.filename, DotG)
    /\ call.filename[Len(call.filename)] = "G"
    /\ ret.value[1].encrypted
    /\ ~ret.value[1].compressed

\* volume has returned for a backup set the chain holds.
OpenedSet == call.op = "volume" /\ ret.pc = "done" /\ call.snapnum < Len(call.back)

\* C19: opening a volume of a backup set that is flagged encrypted always
\* fails with an error and never calls backend.open_file; for a set that is
\* not encrypted the backend stream is wrapped in a gzip decoder exactly
\* when the set is flagged compressed.
C19_EncryptedFailsUnopened ==
    OpenedSet =>
        LET backup_set == call.back[call.snapnum + 1]
        IN  /\ backup_set.is_encrypted =>
                  ret.value.result = "Err" /\ ret.value.opened = <<>>
            /\ (~backup_set.is_encrypted /\ ret.value.opened # <<>> /\ call.open = "ok") =>
                  /\ ret.value.wrapped <=> backup_set.is_compressed
                  /\ ret.value.result = "Ok" =>
                        ret.value.value = (IF backup_set.is_compressed THEN "GzDecoder"
                                           ELSE "rawfile")

\* An encrypted set whose volume has a file the backend would open: volume
\* fails without asking for it.
C19_Witness ==
    /\ OpenedSet
    /\ call.back[call.snapnum + 1].is_encrypted
    /\ call.volnum \in 1..call.back[call.snapnum + 1].volumes
    /\ call.open = "ok"
    /\ ret.value.result = "Err"
    /\ ret.value.value = "Other"

\* A read of the given cache type has consulted a cache of the new provider.
Consulted(ctype) == call.op = "BlockProvider::new" /\ ret.pc = "read" /\ ret.ctype = ctype

\* n is x rounded to the nearest integer, x being tenths * total / 10.
IsRound(n, tenths, total) == 10 * n - 5 <= tenths * total /\ tenths * total < 10 * n + 5

\* n is the integer part of tenths * total / 10.
IsFloor(n, tenths, total) == 10 * n <= tenths * total /\ tenths * total < 10 * (n + 1)

\* C20 as stated: BlockProvider::new(total) creates the snapshot-data cache
\* (the one Entry reads consult for CacheType::Snapshot) with capacity
\* round(0.4 * total) and the signature-data cache with capacity
\* round(0.6 * total).
C20_SnapshotFourTenthsRounded ==
    /\ Consulted("Snapshot") => IsRound(ret.max_blocks, 4, call.cache_size)
    /\ Consulted("Signature") => IsRound(ret.max_blocks, 6, call.cache_size)

\* C20, amended: the cache consulted for CacheType::Snapshot has capacity
\* 0.6 * total with the fraction dropped, the other cache 0.4 * total with
\* the fraction dropped.
C20_SnapshotSixTenthsTruncated ==
    /\ Consulted("Snapshot") => IsFloor(ret.max_blocks, 6, call.cache_size)
    /\ Consulted("Signature") => IsFloor(ret.max_blocks, 4, call.cache_size)

\* A total whose shares have fractions: the snapshot-data cache gets the
\* larger share, and less than rounding 0.6 * total would give.
C20_Witness ==
    /\ Consulted("Snapshot")
    /\ ret.max_blocks > ret.provider.dcache
    /\ IsRound(ret.max_blocks + 1, 6, call.cache_size)

\* C24: under any interleaving of concurrent read, write and clear calls on
\* one BlockCache, a read(id, buf) that returns Some(n) has copied the first
\* n bytes of the data given to the write(id, ...) call that inserted id: it
\* never returns bytes written for a different id (whose storage was reused
\* on eviction) nor a mixture of two writes.
C24_ReadReturnsInsertedBytes ==
    [][(last'.op = "read" /\ last'.val # None) =>
          LET data == Prefix(inserted[last'.id], BLOCK_SIZE)
              n == last'.val[1]
          IN  /\ n = Min(Len(data), Len(last'.buffer))
              /\ \A i \in 1..n : last'.buffer[i] = data[i]]_vars

\* C24's case: between the two steps of the read a write evicted its id
\* (reusing the storage) and a later write stored the id again; the read
\* returned bytes while the cache held another id with other bytes.
C24_Witness ==
    /\ max_blocks >= 1
    /\ last.op = "read"
    /\ last.note = "rewritten"
    /\ last.val # None
    /\ last.val[1] >= 1
    /\ \E k \in Keys(index) : k # last.id /\ Get(index, k) # Get(index, last.id)

\* C21: when an Entry has len > 0 buffered bytes, read(out) for an output
\* buffer of any length copies exactly min(len, len(out)) bytes from
\* buf[pos..] into out, advances pos and decreases len by that amount,
\* returns that count, and does not fail or panic.  Only entries whose
\* buffered bytes are inside the buffer are looked at: the others are C23's
\* matter.
C21_BufferedReadCopiesMin ==
    [][(/\ max_blocks >= 1
        /\ entry.len > 0
        /\ entry.pos + entry.len <= Len(entry.buf)
        /\ last'.op = "Entry::read") =>
          LET n == Min(entry.len, Len(last'.buffer))
          IN  /\ ended' = "open"
              /\ last'.val = Some(n)
              /\ entry'.pos = entry.pos + n
              /\ entry'.len = entry.len - n
              /\ SubSeq(last'.buffer, 1, n) = SubSeq(entry.buf, entry.pos + 1, entry.pos + n)]_vars

\* C22: consuming an Entry through the buffered interface (fill_buf, then
\* consume of the returned slice's length, until fill_buf returns an empty
\* slice) delivers what consuming it through read is to deliver: the blocks
\* 0, 1, 2, ... are fetched each once, and at the empty slice the bytes
\* consumed are the entry's bytes.
C22_BufReadDeliversBlocksInOrder ==
    max_blocks >= 1 =>
        /\ fetched = [i \in 1..Len(fetched) |-> i - 1]
        /\ ended = "eof" => delivered = Content

\* C23: in every state an Entry is in between calls, after any sequence of
\* read, fill_buf and consume calls with any mix of cache hits and stream
\* reads, pos + len <= BLOCK_SIZE.
C23_BufferedRangeInBounds ==
    (max_blocks >= 1 /\ ended \in {"open", "eof", "error"}) =>
        entry.pos + entry.len <= BLOCK_SIZE

\* C25: once read on an Entry has returned 0 at the end of the entry, every
\* later read on that Entry returns 0 (the stream's I/O error is let
\* through) and delivers no bytes.
C25_ZeroAfterEndOfEntry ==
    [][(max_blocks >= 1 /\ ended = "eof" /\ last'.op = "Entry::read") =>
          (ended' \in {"eof", "error"} /\ delivered' = delivered)]_vars

\* The number of header lines of a manifest and of lines of a Volume record.
HeaderLines == Len(Text(<<>>))

RecordLines == Len(Text(NumberedRecords(1))) - Len(Text(<<>>))

\* parse has returned for a text with an empty line after its first
\* call.blank lines.
ParsedWithEmptyLine == Parsed /\ "blank" \in DOMAIN call

\* C26: Manifest::parse treats an empty line (also a line holding only CR)
\* like the end of the input: where a Volume record may start, parsing ends
\* successfully with the volumes read so far and the records after the empty
\* line are ignored; where a line is required, the result is the
\* UnexpectedEof error.
C26_EmptyLineEndsInput ==
    ParsedWithEmptyLine =>
        IF call.blank >= HeaderLines /\ (call.blank - HeaderLines) % RecordLines = 0
        THEN /\ ret.result.ok
             /\ ret.result.volumes =
                  [i \in 1..((call.blank - HeaderLines) \div RecordLines) |->
                      Volume(call.records[i].start_path, call.records[i].end_path)]
        ELSE ret.result = ParseResult(FALSE, UnexpectedEof.error, 0, <<>>)

\* C26's case: a line holding only CR between the first record and the
\* second: parse returns the first volume alone.
C26_Witness ==
    /\ ParsedWithEmptyLine
    /\ call.end = <<CR, LF>>
    /\ Len(call.records) = 2
    /\ call.blank = HeaderLines + RecordLines
    /\ ret.result.ok
    /\ Len(ret.result.volumes) = 1

====
